---- MODULE Spec2Model ----
(***************************************************************************)
(* The book catalogue of src/book.js and src/bookList.js: a book with its  *)
(* matches(filters) predicate, and the book list with its search / paging  *)
(* state (books, booksPerPage, currentPage, matches); the page that        *)
(* src/bookUI.js keeps in step with the book list (document); and the      *)
(* handlers the code had before it was split up, as README.md keeps them   *)
(* (draft).                                                                *)
(*                                                                         *)
(* Strings that the code inspects character by character (titles) are      *)
(* sequences of one-character strings; ids, authors and genres are only    *)
(* compared with ===, so they are atoms.  The character "i-dotless" is     *)
(* U+0131, the lower-case dotless i, whose upper case is "I".              *)
(***************************************************************************)
EXTENDS Integers, Sequences, FiniteSets, TLC

VARIABLES books, booksPerPage, currentPage, matches, criteria, op, returned,
          pre, document, draft

vars ==
    <<books, booksPerPage, currentPage, matches, criteria, op, returned, pre,
      document, draft>>

(***************************************************************************)
(* Bounds of the model.                                                    *)
(***************************************************************************)
MaxBooks == 3
MaxPerPage == 2
MaxGenres == 2
\* The value up to which the old handlers' page counter is followed.
MaxDraftPage == 5

(***************************************************************************)
(* The data the model draws its inputs from.                               *)
(***************************************************************************)
\* The raw book data handed to createBookList (data.js is an input here):
\* title, author and genres of one raw record.
BookShapes ==
    { [title |-> <<"A", "b">>, author |-> "a1", genres |-> <<"g2", "g1">>],
      [title |-> <<"b", "a">>, author |-> "a2", genres |-> <<"g1">>],
      [title |-> <<"A", "b">>, author |-> "a1", genres |-> <<>>] }

\* The filters a search form can submit: title is free text, author and
\* genre are 'any', an id of the directory, or an id no book carries.
FilterTitles == { <<>>, <<" ">>, <<"a", "B">> }
FilterAuthors == { "any", "a1", "a9" }
FilterGenres == { "any", "g1", "g9" }
Filters == [title : FilterTitles, author : FilterAuthors, genre : FilterGenres]

\* The published value of a raw record: a date string, or text that is no
\* date.
ParseableDates == { "1998-05-01" }
PublishedInputs == ParseableDates \cup { "not a date" }

\* The published value of the records whose date is of no interest.
SomeDate == "1998-05-01"

\* One raw record with any list of up to MaxGenres genres and a title of
\* either case, with a space, or with a dotless i.
MatchTitles == { <<"A", "b">>, <<"b", "a">>, <<"a", " ", "B">>, <<"i-dotless", "b">> }
MatchAuthors == { "a1", "a2" }
MatchGenres == { "g1", "g2" }
GenreLists == UNION { [1..n -> MatchGenres] : n \in 0..MaxGenres }
MatchShapes == [title : MatchTitles, author : MatchAuthors, genres : GenreLists]

\* Filters that differ from a book's values in case, in length or by white
\* space.
MatchFilterTitles ==
    { <<>>, <<" ">>, <<"a", "B">>, <<"B">>, <<" ", "b">>, <<"b", " ">>,
      <<"a", "b", "a">>, <<"i-dotless">> }
MatchFilterAuthors == { "any", "a1", "A1", "a" }
MatchFilterGenres == { "any", "g1", "g3" }
MatchFilters ==
    [title : MatchFilterTitles, author : MatchFilterAuthors, genre : MatchFilterGenres]

(***************************************************************************)
(* String and array primitives of the language, as the code uses them.     *)
(***************************************************************************)
Min(a, b) == IF a < b THEN a ELSE b

Max(a, b) == IF a > b THEN a ELSE b

\* String.prototype.toLowerCase, one character.
lowerChar(c) ==
    CASE c = "A" -> "a"
      [] c = "B" -> "b"
      [] c = "I" -> "i"
      [] OTHER -> c

toLowerCase(s) == [i \in 1..Len(s) |-> lowerChar(s[i])]

isSpace(c) == c = " "

RECURSIVE trimStart(_)
trimStart(s) ==
    IF s # <<>> /\ isSpace(Head(s)) THEN trimStart(Tail(s)) ELSE s

RECURSIVE trimEnd(_)
trimEnd(s) ==
    IF s # <<>> /\ isSpace(s[Len(s)]) THEN trimEnd(SubSeq(s, 1, Len(s) - 1)) ELSE s

\* String.prototype.trim
trim(s) == trimEnd(trimStart(s))

\* Does needle occur in hay at 0-based offset k ?
startsAt(hay, needle, k) ==
    /\ k + Len(needle) <= Len(hay)
    /\ \A j \in 1..Len(needle) : hay[k + j] = needle[j]

\* String.prototype.includes: scan the offsets from the left.
RECURSIVE includesFrom(_, _, _)
includesFrom(hay, needle, k) ==
    IF k + Len(needle) > Len(hay) THEN FALSE
    ELSE IF startsAt(hay, needle, k) THEN TRUE
    ELSE includesFrom(hay, needle, k + 1)

includes(hay, needle) == includesFrom(hay, needle, 0)

\* Array.prototype.slice(start, end) for 0 <= start: 0-based, end excluded,
\* both clamped to the length.
slice(arr, start, end) ==
    LET from == Min(start, Len(arr))
        to == Min(end, Len(arr))
    IN  IF to <= from THEN <<>> ELSE SubSeq(arr, from + 1, to)

\* new Date(value) for a string: the date it parses to, or the Invalid Date
\* (time value NaN) when it does not parse; it never throws.
InvalidDate == [time |-> "NaN"]

newDate(value) ==
    IF value \in ParseableDates THEN [time |-> value] ELSE InvalidDate

(***************************************************************************)
(* book.js                                                                 *)
(***************************************************************************)
\* createBook: the fields of the raw record, copied; published parsed.
createBook(raw) ==
    [id |-> raw.id, title |-> raw.title, author |-> raw.author,
     published |-> newDate(raw.published), genres |-> raw.genres]

\* titleMatch that tests !filters.title, without trim().
titleMatchUntrimmed(book, filters) ==
    \/ filters.title = <<>>
    \/ includes(toLowerCase(book.title), toLowerCase(filters.title))

titleMatch(book, filters) ==
    \/ trim(filters.title) = <<>>
    \/ includes(toLowerCase(book.title), toLowerCase(filters.title))

\* authorMatch without the 'any' sentinel.
authorMatchNoSentinel(book, filters) ==
    book.author = filters.author

\* Lower case of an author id.
lowerId(id) == IF id = "A1" THEN "a1" ELSE id

\* authorMatch that compares the ids without regard to case.
authorMatchIgnoreCase(book, filters) ==
    \/ filters.author = "any"
    \/ lowerId(book.author) = lowerId(filters.author)

authorMatch(book, filters) ==
    \/ filters.author = "any"
    \/ book.author = filters.author

\* The loop with the break after the comparison: only the first genre is
\* ever compared.
genreLoopFirstOnly(genres, genre, genreMatch) ==
    IF genres = <<>> THEN genreMatch
    ELSE genreMatch \/ Head(genres) = genre

\* The for-of loop over this.genres: stop as soon as genreMatch is set.
RECURSIVE genreLoop(_, _, _)
genreLoop(genres, genre, genreMatch) ==
    IF genres = <<>> THEN genreMatch
    ELSE IF genreMatch THEN genreMatch
    ELSE genreLoop(Tail(genres), genre, Head(genres) = genre)

genreMatchOf(book, filters) ==
    genreLoop(book.genres, filters.genre, filters.genre = "any")

\* book.matches that returns titleMatch && genreMatch.
bookMatchesNoAuthor(book, filters) ==
    /\ titleMatch(book, filters)
    /\ genreMatchOf(book, filters)

\* book.matches that needs only one of the author and the genre to match:
\* titleMatch && (authorMatch || genreMatch).
bookMatchesEitherId(book, filters) ==
    /\ titleMatch(book, filters)
    /\ (authorMatch(book, filters) \/ genreMatchOf(book, filters))

\* book.matches that also needs the published value to be a date.
bookMatchesValidDate(book, filters) ==
    /\ book.published # InvalidDate
    /\ titleMatch(book, filters)
    /\ authorMatch(book, filters)
    /\ genreMatchOf(book, filters)

\* book.matches(filters)
bookMatches(book, filters) ==
    /\ titleMatch(book, filters)
    /\ authorMatch(book, filters)
    /\ genreMatchOf(book, filters)

(***************************************************************************)
(* bookList.js.  A method takes the object (this) and yields the object    *)
(* after the call and the value returned.                                  *)
(***************************************************************************)
\* Array.prototype.map(createBook)
mapCreateBook(booksData) == [i \in 1..Len(booksData) |-> createBook(booksData[i])]

\* createBookList that starts with no matches until the first search.
createBookListNoMatches(booksData, perPage) ==
    [books |-> mapCreateBook(booksData),
     booksPerPage |-> perPage,
     currentPage |-> 1,
     matches |-> <<>>]

createBookList(booksData, perPage) ==
    [books |-> mapCreateBook(booksData),
     booksPerPage |-> perPage,
     currentPage |-> 1,
     matches |-> mapCreateBook(booksData)]

Reverse(arr) == [i \in 1..Len(arr) |-> arr[Len(arr) + 1 - i]]

\* search that leaves currentPage alone.
searchKeepPage(this, filters) ==
    LET found == SelectSeq(this.books, LAMBDA book : bookMatches(book, filters))
    IN  [this |-> [this EXCEPT !.matches = found], ret |-> found]

\* search that narrows the previous matches instead of filtering this.books.
searchWithinMatches(this, filters) ==
    LET found == SelectSeq(this.matches, LAMBDA book : bookMatches(book, filters))
    IN  [this |-> [this EXCEPT !.matches = found, !.currentPage = 1],
         ret |-> found]

\* search that collects the matching books last to first.
searchReversed(this, filters) ==
    LET found == Reverse(SelectSeq(this.books, LAMBDA book : bookMatches(book, filters)))
    IN  [this |-> [this EXCEPT !.matches = found, !.currentPage = 1],
         ret |-> found]

\* search that resets the cursor to 0, as for a 0-based page index.
searchPageZero(this, filters) ==
    LET found == SelectSeq(this.books, LAMBDA book : bookMatches(book, filters))
    IN  [this |-> [this EXCEPT !.matches = found, !.currentPage = 0],
         ret |-> found]

\* search that filters in place: this.books = this.matches = the result.
searchInPlace(this, filters) ==
    LET found == SelectSeq(this.books, LAMBDA book : bookMatches(book, filters))
    IN  [this |-> [this EXCEPT !.books = found, !.matches = found, !.currentPage = 1],
         ret |-> found]

search(this, filters) ==
    LET found == SelectSeq(this.books, LAMBDA book : bookMatches(book, filters))
    IN  [this |-> [this EXCEPT !.matches = found, !.currentPage = 1],
         ret |-> found]

\* getCurrentBookPage that takes currentPage as a 0-based index.
getCurrentBookPageZeroBased(this) ==
    LET start == this.currentPage * this.booksPerPage
        end == start + this.booksPerPage
    IN  slice(this.matches, start, end)

\* getCurrentBookPage whose end is one short: slice(start, end - 1).
getCurrentBookPageShort(this) ==
    LET start == (this.currentPage - 1) * this.booksPerPage
        end == start + this.booksPerPage
    IN  slice(this.matches, start, end - 1)

getCurrentBookPage(this) ==
    LET start == (this.currentPage - 1) * this.booksPerPage
        end == start + this.booksPerPage
    IN  slice(this.matches, start, end)

\* remainingCount without the clamp at 0.
remainingCountUnclamped(this) ==
    Len(this.matches) - (this.currentPage * this.booksPerPage)

\* remainingCount that counts from the start of the current page.
remainingCountFromPageStart(this) ==
    Max(0, Len(this.matches) - ((this.currentPage - 1) * this.booksPerPage))

remainingCount(this) ==
    Max(0, Len(this.matches) - (this.currentPage * this.booksPerPage))

\* nextPage whose guard is remainingCount() >= 0.
nextPageAlways(this) ==
    IF remainingCount(this) >= 0
    THEN [this |-> [this EXCEPT !.currentPage = @ + 1], ret |-> TRUE]
    ELSE [this |-> this, ret |-> FALSE]

\* nextPage that wraps to the first page once nothing remains.
nextPageWrap(this) ==
    IF remainingCount(this) > 0
    THEN [this |-> [this EXCEPT !.currentPage = @ + 1], ret |-> TRUE]
    ELSE [this |-> [this EXCEPT !.currentPage = 1], ret |-> FALSE]

\* nextPage that reports success but leaves out currentPage++.
nextPageStuck(this) ==
    IF remainingCount(this) > 0
    THEN [this |-> this, ret |-> TRUE]
    ELSE [this |-> this, ret |-> FALSE]

\* nextPage that also advances when the current page is exactly the last
\* one: matches.length >= currentPage * booksPerPage.
nextPageWhenFull(this) ==
    IF Len(this.matches) >= this.currentPage * this.booksPerPage
    THEN [this |-> [this EXCEPT !.currentPage = @ + 1], ret |-> TRUE]
    ELSE [this |-> this, ret |-> FALSE]

\* nextPage that does currentPage++ whether or not books remain.
nextPageUnguarded(this) ==
    [this |-> [this EXCEPT !.currentPage = @ + 1], ret |-> remainingCount(this) > 0]

nextPage(this) ==
    IF remainingCount(this) > 0
    THEN [this |-> [this EXCEPT !.currentPage = @ + 1], ret |-> TRUE]
    ELSE [this |-> this, ret |-> FALSE]

(***************************************************************************)
(* bookUI.js.  The page (document) is a record of the elements the code    *)
(* selects: listItems, the previews in [data-list-items]; listButton, the   *)
(* [data-list-button]; listMessage, whether [data-list-message] has the    *)
(* class list__message_show; listActive, the [data-list-active] overlay;    *)
(* searchOverlay, whether [data-search-overlay] is open.  A method takes   *)
(* the book list (this.bookList) and the page and yields them after the    *)
(* call.  Images and descriptions are left out of the elements.            *)
(***************************************************************************)
\* The page as served, before createBookUI has run.
BlankDocument ==
    [listItems |-> <<>>,
     listButton |-> [disabled |-> FALSE, remaining |-> <<>>],
     listMessage |-> FALSE,
     listActive |-> [open |-> FALSE, title |-> <<>>, subtitle |-> <<>>],
     searchOverlay |-> FALSE]

\* authors[author]: the name the author directory has for the id.
authorsAt(author) == <<"authors", author>>

\* date.getFullYear(): NaN for the Invalid Date.
getFullYear(date) == IF date = InvalidDate THEN "NaN" ELSE "1998"

\* book.previewElement(): a button whose data-preview attribute is the id.
previewElement(book) ==
    [preview |-> book.id, title |-> book.title, author |-> authorsAt(book.author)]

\* The fragment renderBooks builds from the current page.
fragmentOf(arr) == [i \in 1..Len(arr) |-> previewElement(arr[i])]

\* renderBooks that never empties the container.
renderBooksAppendOnly(this, doc) ==
    [doc EXCEPT !.listItems = @ \o fragmentOf(getCurrentBookPage(this))]

\* bookUI.renderBooks()
renderBooks(this, doc) ==
    [doc EXCEPT !.listItems =
        (IF this.currentPage = 1 THEN <<>> ELSE @) \o fragmentOf(getCurrentBookPage(this))]

\* updateShowMoreButton with button.disabled = remaining > 0.
updateShowMoreButtonInverted(this, doc) ==
    [doc EXCEPT !.listButton =
        [disabled |-> remainingCount(this) > 0, remaining |-> <<remainingCount(this)>>]]

\* bookUI.updateShowMoreButton()
updateShowMoreButton(this, doc) ==
    [doc EXCEPT !.listButton =
        [disabled |-> remainingCount(this) <= 0, remaining |-> <<remainingCount(this)>>]]

\* bookUI.initializeUI(); the theme and the dropdowns are not part of the
\* model.
initializeUI(this, doc) == updateShowMoreButton(this, renderBooks(this, doc))

\* classList.toggle(name): the class is there afterwards iff it was not.
classListFlip(present, force) == ~present

\* classList.toggle(name, force): the class is there afterwards iff force.
classListToggle(present, force) == force

\* bookUI.handleSearch(event), filters being the form's data.
handleSearch(this, doc, filters) ==
    LET call == search(this, filters)
        rendered == renderBooks(call.this, doc)
        messaged == [rendered EXCEPT !.listMessage = classListToggle(@, Len(call.ret) < 1)]
        updated == updateShowMoreButton(call.this, messaged)
    IN  [bookList |-> call.this,
         document |-> [updated EXCEPT !.searchOverlay = FALSE],
         results |-> call.ret]

\* loadMoreBooks that renders whatever nextPage() answers.
loadMoreBooksUnguarded(this, doc) ==
    LET call == nextPage(this)
    IN  [bookList |-> call.this,
         document |-> updateShowMoreButton(call.this, renderBooks(call.this, doc))]

\* bookUI.loadMoreBooks()
loadMoreBooks(this, doc) ==
    LET call == nextPage(this)
    IN  IF call.ret
        THEN [bookList |-> call.this,
              document |-> updateShowMoreButton(call.this, renderBooks(call.this, doc))]
        ELSE [bookList |-> call.this, document |-> doc]

\* node?.dataset?.preview is truthy: the node has a data-preview attribute
\* that is not the empty string.
hasPreview(node) == "preview" \in DOMAIN node /\ node.preview # ""

\* find that yields the first book whatever its id.
findFirst(arr, preview) == IF arr = <<>> THEN <<>> ELSE <<Head(arr)>>

\* books.find(book => book.id === preview): <<the first such book>>, or <<>>
\* for undefined.
RECURSIVE find(_, _)
find(arr, preview) ==
    IF arr = <<>> THEN <<>>
    ELSE IF Head(arr).id = preview THEN <<Head(arr)>>
    ELSE find(Tail(arr), preview)

\* The loop of handleBookClick over the event path, active being <<>> for
\* null or undefined.
RECURSIVE clickLoop(_, _, _)
clickLoop(this, pathArray, active) ==
    IF pathArray = <<>> \/ active # <<>> THEN active
    ELSE clickLoop(this, Tail(pathArray),
                   IF hasPreview(Head(pathArray))
                   THEN find(this.books, Head(pathArray).preview)
                   ELSE active)

\* bookUI.showBookDetails(book)
showBookDetails(doc, book) ==
    [doc EXCEPT !.listActive =
        [open |-> TRUE, title |-> book.title,
         subtitle |-> <<authorsAt(book.author), getFullYear(book.published)>>]]

\* bookUI.handleBookClick(event), pathArray being the event's path.
handleBookClick(this, doc, pathArray) ==
    LET active == clickLoop(this, pathArray, <<>>)
    IN  [document |-> IF active # <<>> THEN showBookDetails(doc, active[1]) ELSE doc,
         active |-> active]

(***************************************************************************)
(* The handlers before the refactoring (README.md).  They work on the raw  *)
(* records of data.js (books), the globals page and matches, and the page  *)
(* (document); d is the record of all of these.                            *)
(***************************************************************************)
\* The loop over book.genres of the submit handler.
RECURSIVE draftGenreLoop(_, _, _)
draftGenreLoop(genres, genre, genreMatch) ==
    IF genres = <<>> THEN genreMatch
    ELSE IF genreMatch THEN genreMatch
    ELSE draftGenreLoop(Tail(genres), genre,
                        IF Head(genres) = genre THEN TRUE ELSE genreMatch)

\* The condition under which the submit handler pushes book onto result.
draftPushes(book, filters) ==
    /\ (trim(filters.title) = <<>>
           \/ includes(toLowerCase(book.title), toLowerCase(filters.title)))
    /\ (filters.author = "any" \/ book.author = filters.author)
    /\ draftGenreLoop(book.genres, filters.genre, filters.genre = "any")

\* The loop over books of the submit handler: result.
RECURSIVE draftResult(_, _)
draftResult(all, filters) ==
    IF all = <<>> THEN <<>>
    ELSE (IF draftPushes(Head(all), filters) THEN <<Head(all)>> ELSE <<>>)
         \o draftResult(Tail(all), filters)

\* The preview button the handlers build from a raw record.
draftElement(book) ==
    [preview |-> book.id, title |-> book.title, author |-> authorsAt(book.author)]

draftFragment(arr) == [i \in 1..Len(arr) |-> draftElement(arr[i])]

\* The count the button's label shows.
draftRemaining(d) ==
    IF Len(d.matches) - d.page * d.booksPerPage > 0
    THEN Len(d.matches) - d.page * d.booksPerPage
    ELSE 0

\* The submit handler of [data-search-form].
draftSubmit(d, filters) ==
    LET result == draftResult(d.books, filters)
        found == [d EXCEPT !.page = 1, !.matches = result]
    IN  [found EXCEPT !.document =
            [listItems |-> draftFragment(slice(result, 0, d.booksPerPage)),
             listButton |->
                [disabled |-> Len(found.matches) - found.page * d.booksPerPage < 1,
                 remaining |-> <<draftRemaining(found)>>],
             listMessage |-> Len(result) < 1,
             listActive |-> d.document.listActive,
             searchOverlay |-> FALSE]]

\* The click handler of [data-list-button].
draftShowMore(d) ==
    [d EXCEPT !.document.listItems =
                  @ \o draftFragment(slice(d.matches, d.page * d.booksPerPage,
                                           (d.page + 1) * d.booksPerPage)),
              !.page = @ + 1]

\* The button as the start-up code leaves it.
draftStartButton(d) ==
    [disabled |-> Len(d.matches) - d.page * d.booksPerPage > 0,
     remaining |-> <<draftRemaining(d)>>]

\* The state the handlers start from: page 1, all books as matches, the
\* first page rendered.
draftStart(booksData, perPage) ==
    LET d == [books |-> booksData, booksPerPage |-> perPage, page |-> 1,
              matches |-> booksData, document |-> BlankDocument]
    IN  [d EXCEPT !.document.listItems = draftFragment(slice(booksData, 0, perPage)),
                  !.document.listButton = draftStartButton(d)]

\* No such handlers on the page.
NoDraft == draftStart(<<>>, 1)

(***************************************************************************)
(* The state machine: the book list object, the filters of the last        *)
(* search (criteria: <<>> before any search, <<filters>> after), and the    *)
(* last call (op), its return value (ret) and the page cursor and match    *)
(* count it started from (pre).                                            *)
(***************************************************************************)
\* What the last call returned: returned has one field, named as the call.
ret == returned[op]

bookList ==
    [books |-> books, booksPerPage |-> booksPerPage,
     currentPage |-> currentPage, matches |-> matches]

\* What a call starts from: the page cursor and the number of matches.
Before == [currentPage |-> currentPage, matchCount |-> Len(matches)]

\* The object after a call.
Becomes(this) ==
    /\ books' = this.books
    /\ booksPerPage' = this.booksPerPage
    /\ currentPage' = this.currentPage
    /\ matches' = this.matches

\* The book list used without a page: createBookUI is not called.
NoPage == document = BlankDocument /\ draft = NoDraft

\* Raw records with the ids "1".."n", one per shape, with the published values
\* given.
booksDataDated(shapes, dates) ==
    [i \in 1..Len(shapes) |->
        [id |-> ToString(i), title |-> shapes[i].title, author |-> shapes[i].author,
         published |-> dates[i], genres |-> shapes[i].genres]]

\* Raw records with the ids "1".."n", one per shape.
booksDataOf(shapes) ==
    booksDataDated(shapes, [i \in 1..Len(shapes) |-> SomeDate])

Init ==
    \E n \in 0..MaxBooks : \E shapes \in [1..n -> BookShapes] :
      \E perPage \in 1..MaxPerPage :
        \E this \in {createBookList(booksDataOf(shapes), perPage)} :
            /\ books = this.books
            /\ booksPerPage = this.booksPerPage
            /\ currentPage = this.currentPage
            /\ matches = this.matches
            /\ criteria = <<>>
            /\ op = "createBookList"
            /\ returned = [createBookList |-> <<>>]
            /\ pre = [currentPage |-> this.currentPage, matchCount |-> Len(this.matches)]
            /\ NoPage

\* bookList.search(filters)
Search(filters) ==
    \E call \in {search(bookList, filters)} :
        /\ Becomes(call.this)
        /\ criteria' = <<filters>>
        /\ op' = "search"
        /\ returned' = [search |-> call.ret]
        /\ pre' = Before
        /\ UNCHANGED <<document, draft>>

\* bookList.getCurrentBookPage()
GetCurrentBookPage ==
    /\ Becomes(bookList)
    /\ criteria' = criteria
    /\ op' = "getCurrentBookPage"
    /\ returned' = [getCurrentBookPage |-> getCurrentBookPage(bookList)]
    /\ pre' = Before
    /\ UNCHANGED <<document, draft>>

\* bookList.remainingCount()
RemainingCount ==
    /\ Becomes(bookList)
    /\ criteria' = criteria
    /\ op' = "remainingCount"
    /\ returned' = [remainingCount |-> remainingCount(bookList)]
    /\ pre' = Before
    /\ UNCHANGED <<document, draft>>

\* bookList.nextPage()
NextPage ==
    \E call \in {nextPage(bookList)} :
        /\ Becomes(call.this)
        /\ criteria' = criteria
        /\ op' = "nextPage"
        /\ returned' = [nextPage |-> call.ret]
        /\ pre' = Before
        /\ UNCHANGED <<document, draft>>

Next ==
    \/ \E filters \in Filters : Search(filters)
    \/ GetCurrentBookPage
    \/ RemainingCount
    \/ NextPage

Spec == Init /\ [][Next]_vars

\* A list of one book, searched with the filters of MatchFilters.
InitMatch ==
    \E shape \in MatchShapes :
        \E this \in {createBookList(booksDataOf(<<shape>>), 1)} :
            /\ books = this.books
            /\ booksPerPage = this.booksPerPage
            /\ currentPage = this.currentPage
            /\ matches = this.matches
            /\ criteria = <<>>
            /\ op = "createBookList"
            /\ returned = [createBookList |-> <<>>]
            /\ pre = [currentPage |-> this.currentPage, matchCount |-> Len(this.matches)]
            /\ NoPage

NextMatch == \E filters \in MatchFilters : Search(filters)

SpecMatch == InitMatch /\ [][NextMatch]_vars

\* Lists whose published values are dates or no dates, searched with the
\* filters that leave the genre open.
DateFilters ==
    { filters \in Filters :
        /\ filters.genre = "any"
        /\ filters.title \in { <<>>, <<"a", "B">> }
        /\ filters.author \in { "any", "a1" } }

InitDate ==
    \E n \in 1..MaxBooks : \E shapes \in [1..n -> BookShapes] :
      \E dates \in [1..n -> PublishedInputs] :
        \E this \in {createBookList(booksDataDated(shapes, dates), MaxPerPage)} :
            /\ books = this.books
            /\ booksPerPage = this.booksPerPage
            /\ currentPage = this.currentPage
            /\ matches = this.matches
            /\ criteria = <<>>
            /\ op = "createBookList"
            /\ returned = [createBookList |-> <<>>]
            /\ pre = [currentPage |-> this.currentPage, matchCount |-> Len(this.matches)]
            /\ NoPage

NextDate ==
    \/ \E filters \in DateFilters : Search(filters)
    \/ GetCurrentBookPage
    \/ RemainingCount
    \/ NextPage

SpecDate == InitDate /\ [][NextDate]_vars

(***************************************************************************)
(* The page: createBookUI(bookList) has run, and the user submits the      *)
(* search form, clicks the show-more button, clicks in the list, and opens *)
(* and closes the overlays.  ret is what the handler got from the book     *)
(* list: the results of search, the answer of nextPage, the book found     *)
(* for a click; pre also holds the event path of a click.                  *)
(***************************************************************************)
\* The filters the search form is submitted with.
FormFilters ==
    { filters \in Filters :
        /\ filters.title = <<>>
        /\ filters.author \in { "any", "a9" }
        /\ filters.genre \in { "any", "g1" } }

\* Nodes of an event path that are no previews: an element inside a
\* preview, the list container, the document.
PreviewTitleNode == [class |-> "preview__title"]
ListItemsNode == [class |-> "list__items"]
DocumentNode == [nodeName |-> "#document"]

\* The event paths of a click in the list: on a preview that is in the
\* list, or on the container beside the previews.
EventPaths ==
    { <<PreviewTitleNode, document.listItems[i], ListItemsNode, DocumentNode>> :
        i \in 1..Len(document.listItems) }
    \cup { <<ListItemsNode, DocumentNode>> }

BeforeEvent(pathArray) ==
    [currentPage |-> currentPage, matchCount |-> Len(matches), path |-> pathArray]

\* bookUI.toggleOverlay(name, show) for the search overlay.
toggleOverlay(doc, name, show) ==
    IF name = "search" THEN [doc EXCEPT !.searchOverlay = show] ELSE doc

\* createBookList(books, BOOKS_PER_PAGE); createBookUI(bookList)
InitUI ==
    \E n \in 0..MaxBooks : \E shapes \in [1..n -> BookShapes] :
      \E perPage \in 1..MaxPerPage :
        \E this \in {createBookList(booksDataOf(shapes), perPage)} :
            /\ books = this.books
            /\ booksPerPage = this.booksPerPage
            /\ currentPage = this.currentPage
            /\ matches = this.matches
            /\ criteria = <<>>
            /\ op = "initializeUI"
            /\ returned = [initializeUI |-> <<>>]
            /\ pre = [currentPage |-> this.currentPage, matchCount |-> Len(this.matches),
                      path |-> <<>>]
            /\ document = initializeUI(this, BlankDocument)
            /\ draft = NoDraft

\* submit on [data-search-form]
HandleSearch(filters) ==
    \E call \in {handleSearch(bookList, document, filters)} :
        /\ Becomes(call.bookList)
        /\ document' = call.document
        /\ criteria' = <<filters>>
        /\ op' = "handleSearch"
        /\ returned' = [handleSearch |-> call.results]
        /\ pre' = BeforeEvent(<<>>)
        /\ UNCHANGED draft

\* click on [data-list-button]
LoadMoreBooks ==
    \E call \in {loadMoreBooks(bookList, document)} :
        /\ Becomes(call.bookList)
        /\ document' = call.document
        /\ criteria' = criteria
        /\ op' = "loadMoreBooks"
        /\ returned' = [loadMoreBooks |-> nextPage(bookList).ret]
        /\ pre' = BeforeEvent(<<>>)
        /\ UNCHANGED draft

\* click on [data-list-items]
HandleBookClick(pathArray) ==
    \E call \in {handleBookClick(bookList, document, pathArray)} :
        /\ Becomes(bookList)
        /\ document' = call.document
        /\ criteria' = criteria
        /\ op' = "handleBookClick"
        /\ returned' = [handleBookClick |-> call.active]
        /\ pre' = BeforeEvent(pathArray)
        /\ UNCHANGED draft

\* click on [data-list-close]
ListClose ==
    /\ Becomes(bookList)
    /\ document' = [document EXCEPT !.listActive.open = FALSE]
    /\ criteria' = criteria
    /\ op' = "listClose"
    /\ returned' = [listClose |-> <<>>]
    /\ pre' = BeforeEvent(<<>>)
    /\ UNCHANGED draft

\* click on [data-header-search]
HeaderSearch ==
    /\ Becomes(bookList)
    /\ document' = toggleOverlay(document, "search", TRUE)
    /\ criteria' = criteria
    /\ op' = "headerSearch"
    /\ returned' = [headerSearch |-> <<>>]
    /\ pre' = BeforeEvent(<<>>)
    /\ UNCHANGED draft

NextUI ==
    \/ \E filters \in FormFilters : HandleSearch(filters)
    \/ LoadMoreBooks
    \/ \E pathArray \in EventPaths : HandleBookClick(pathArray)
    \/ ListClose
    \/ HeaderSearch

SpecUI == InitUI /\ [][NextUI]_vars

(***************************************************************************)
(* The page and the old handlers side by side: both start from the same    *)
(* records, and every submission and every show-more click is given to     *)
(* both.                                                                   *)
(***************************************************************************)
\* The filters the form is submitted with to both.
BothFilters ==
    { filters \in Filters :
        /\ filters.author \in { "any", "a1" }
        /\ filters.genre \in { "any", "g1" } }

InitRefactor ==
    \E n \in 0..MaxBooks : \E shapes \in [1..n -> BookShapes] :
      \E perPage \in 1..MaxPerPage :
        \E this \in {createBookList(booksDataOf(shapes), perPage)} :
            /\ books = this.books
            /\ booksPerPage = this.booksPerPage
            /\ currentPage = this.currentPage
            /\ matches = this.matches
            /\ criteria = <<>>
            /\ op = "initializeUI"
            /\ returned = [initializeUI |-> <<>>]
            /\ pre = [currentPage |-> this.currentPage, matchCount |-> Len(this.matches),
                      path |-> <<>>]
            /\ document = initializeUI(this, BlankDocument)
            /\ draft = draftStart(booksDataOf(shapes), perPage)

\* submit on [data-search-form], handled by both
SubmitBoth(filters) ==
    \E call \in {handleSearch(bookList, document, filters)} :
        /\ Becomes(call.bookList)
        /\ document' = call.document
        /\ criteria' = <<filters>>
        /\ op' = "handleSearch"
        /\ returned' = [handleSearch |-> call.results]
        /\ pre' = BeforeEvent(<<>>)
        /\ draft' = draftSubmit(draft, filters)

\* click on [data-list-button], handled by both
ShowMoreBoth ==
    \E call \in {loadMoreBooks(bookList, document)} :
        /\ draft.page < MaxDraftPage
        /\ Becomes(call.bookList)
        /\ document' = call.document
        /\ criteria' = criteria
        /\ op' = "loadMoreBooks"
        /\ returned' = [loadMoreBooks |-> nextPage(bookList).ret]
        /\ pre' = BeforeEvent(<<>>)
        /\ draft' = draftShowMore(draft)

NextRefactor ==
    \/ \E filters \in BothFilters : SubmitBoth(filters)
    \/ ShowMoreBoth

SpecRefactor == InitRefactor /\ [][NextRefactor]_vars

\* The caller keeps asking for the next page: a nextPage call that would
\* change the state is not put off for ever.
FairSpec == Spec /\ WF_vars(NextPage)

(***************************************************************************)
(* What the specification says, stated without the code's operators.       *)
(***************************************************************************)
\* The first n elements of arr, all of them when there are fewer.
FirstN(arr, n) == SubSeq(arr, 1, Min(n, Len(arr)))

\* The pages getCurrentBookPage returns at pages 1, 2, ..., n of the current
\* matches, concatenated in that order.
RECURSIVE PagesUpTo(_)
PagesUpTo(n) ==
    IF n = 0 THEN <<>>
    ELSE PagesUpTo(n - 1) \o getCurrentBookPage([bookList EXCEPT !.currentPage = n])

\* The books of all that pass filters, in the order of all.
Filtered(all, filters) == SelectSeq(all, LAMBDA book : bookMatches(book, filters))

(***************************************************************************)
(* C1  Pagination exhaustiveness.  Once remainingCount() is 0, the pages   *)
(* returned at page 1 and at every page the cursor was advanced to         *)
(* (pages 1..currentPage), concatenated in order, are exactly matches:     *)
(* nothing twice, nothing left out.                                        *)
(***************************************************************************)
C1_PaginationExhaustive ==
    remainingCount(bookList) = 0 => PagesUpTo(currentPage) = matches

\* Three matches paged by two: the second, last page is the shorter tail.
C1_Witness ==
    /\ op = "nextPage" /\ ret = TRUE
    /\ remainingCount(bookList) = 0
    /\ booksPerPage = 2 /\ currentPage = 2 /\ Len(matches) = 3

(***************************************************************************)
(* C2  Reset on search.  Every search leaves currentPage = 1, and the      *)
(* getCurrentBookPage() that follows a search returns the first            *)
(* booksPerPage elements of the new matches (all of them if fewer).        *)
(***************************************************************************)
C2_ResetOnSearch ==
    [][/\ op' = "search" => currentPage' = 1
       /\ (op = "search" /\ op' = "getCurrentBookPage")
            => ret' = FirstN(matches, booksPerPage)]_vars

\* A search made from a later page that finds more than one page of books.
C2_Witness ==
    /\ op = "search"
    /\ pre.currentPage > 1
    /\ currentPage = 1
    /\ Len(matches) > booksPerPage

(***************************************************************************)
(* C3  nextPage returns true and adds exactly 1 to currentPage when        *)
(* remainingCount() > 0; it returns false exactly when remainingCount()    *)
(* is 0 and then changes none of currentPage, matches, books and           *)
(* booksPerPage.                                                           *)
(***************************************************************************)
C3_NextPageContract ==
    [][op' = "nextPage" =>
         /\ remainingCount(bookList) > 0
              => (ret' = TRUE /\ currentPage' = currentPage + 1)
         /\ (ret' = FALSE) <=> (remainingCount(bookList) = 0)
         /\ ret' = FALSE
              => UNCHANGED <<currentPage, matches, books, booksPerPage>>]_vars

\* nextPage refused on a page that an earlier nextPage had advanced to.
C3_Witness ==
    /\ op = "nextPage" /\ ret = FALSE
    /\ currentPage > 1
    /\ pre.currentPage = currentPage

(***************************************************************************)
(* C4  Monotonic remaining count.  After a successful nextPage the         *)
(* remaining count is strictly smaller than before and equals              *)
(* max(0, previous remaining count - booksPerPage).                        *)
(***************************************************************************)
C4_RemainingDecreases ==
    [][(op' = "nextPage" /\ ret' = TRUE) =>
         /\ remainingCount(bookList)' < remainingCount(bookList)
         /\ remainingCount(bookList)'
              = Max(0, remainingCount(bookList) - booksPerPage)]_vars

\* A successful nextPage onto a last page that is not full: the clamp acts.
C4_Witness ==
    /\ op = "nextPage" /\ ret = TRUE
    /\ pre.matchCount - pre.currentPage * booksPerPage < booksPerPage
    /\ Len(matches) < currentPage * booksPerPage

(***************************************************************************)
(* C5  matches is always the filter of books under the criteria applied    *)
(* last (all of books before any search), whatever was searched or paged   *)
(* before; and search returns that sequence.                               *)
(***************************************************************************)
C5_MatchesIsFilteredView ==
    /\ criteria = <<>> => matches = books
    /\ criteria # <<>> => matches = Filtered(books, criteria[1])
    /\ op = "search" => ret = Filtered(books, criteria[1])

\* A search from a later page of a narrower result that finds more books
\* than the search before it had left.
C5_Witness ==
    /\ op = "search"
    /\ pre.currentPage > 1
    /\ pre.matchCount < Len(books)
    /\ Len(matches) > pre.matchCount

(***************************************************************************)
(* C6  Idempotent empty filter.  search({title: '', author: 'any',         *)
(* genre: 'any'}) leaves matches equal to books (same books, same order,   *)
(* same number) and returns it, whatever the state it is called in.        *)
(***************************************************************************)
EmptyFilter == [title |-> <<>>, author |-> "any", genre |-> "any"]

C6_EmptyFilterYieldsAll ==
    (op = "search" /\ criteria = <<EmptyFilter>>) =>
        /\ matches = books
        /\ Len(matches) = Len(books)
        /\ ret = books

\* The empty filter submitted on a later page of a narrower result.
C6_Witness ==
    /\ op = "search" /\ criteria = <<EmptyFilter>>
    /\ pre.currentPage > 1
    /\ pre.matchCount < Len(books)
    /\ Len(books) = MaxBooks

(***************************************************************************)
(* The three sub-tests as the specification words them.                    *)
(***************************************************************************)
\* Empty or whitespace only.
IsBlank(text) == \A i \in 1..Len(text) : text[i] = " "

\* Lower case of one letter, by the alphabet.
LowerOf(c) ==
    IF c = "A" THEN "a" ELSE IF c = "B" THEN "b" ELSE IF c = "I" THEN "i" ELSE c

Lowered(text) == [i \in 1..Len(text) |-> LowerOf(text[i])]

\* part occurs in whole as a contiguous run of characters.
IsSubstring(part, whole) ==
    \E k \in 0..Len(whole) :
        /\ k + Len(part) <= Len(whole)
        /\ SubSeq(whole, k + 1, k + Len(part)) = part

TitleTest(book, filters) ==
    \/ IsBlank(filters.title)
    \/ IsSubstring(Lowered(filters.title), Lowered(book.title))

AuthorTest(book, filters) ==
    \/ filters.author = "any"
    \/ filters.author = book.author

GenreTest(book, filters) ==
    \/ filters.genre = "any"
    \/ \E i \in 1..Len(book.genres) : book.genres[i] = filters.genre

(***************************************************************************)
(* C7  Filter conjunction.  For every book of the list and the criteria    *)
(* a search applied, book.matches is true iff the title test, the author   *)
(* test and the genre test all hold, and a book is among the search's      *)
(* matches iff all three hold: one failing sub-test excludes the book      *)
(* whatever the other two say.                                             *)
(***************************************************************************)
C7_FilterConjunction ==
    criteria # <<>> =>
        \A i \in 1..Len(books) :
            LET all3 == /\ TitleTest(books[i], criteria[1])
                        /\ AuthorTest(books[i], criteria[1])
                        /\ GenreTest(books[i], criteria[1])
            IN  /\ bookMatches(books[i], criteria[1]) = all3
                /\ (\E j \in 1..Len(matches) : matches[j] = books[i]) = all3

\* A search that one book passes, one fails on the author alone and one
\* fails on the genre alone.
C7_Witness ==
    /\ op = "search"
    /\ \E i \in 1..Len(books) :
          /\ TitleTest(books[i], criteria[1])
          /\ AuthorTest(books[i], criteria[1])
          /\ GenreTest(books[i], criteria[1])
    /\ \E i \in 1..Len(books) :
          /\ TitleTest(books[i], criteria[1])
          /\ ~AuthorTest(books[i], criteria[1])
          /\ GenreTest(books[i], criteria[1])
          /\ \A j \in 1..Len(matches) : matches[j] # books[i]
    /\ \E i \in 1..Len(books) :
          /\ TitleTest(books[i], criteria[1])
          /\ AuthorTest(books[i], criteria[1])
          /\ ~GenreTest(books[i], criteria[1])
          /\ \A j \in 1..Len(matches) : matches[j] # books[i]

(***************************************************************************)
(* C8  matches is an order-preserving subsequence of books: each of its    *)
(* elements is an element of books, and they come in the order they have   *)
(* in books.                                                               *)
(***************************************************************************)
\* part is whole with some elements left out.
IsSubsequence(part, whole) ==
    \E at \in [1..Len(part) -> 1..Len(whole)] :
        /\ \A j \in 1..Len(part) : part[j] = whole[at[j]]
        /\ \A j, k \in 1..Len(part) : j < k => at[j] < at[k]

C8_MatchesIsSubsequence == IsSubsequence(matches, books)

\* A search that drops the first book and keeps two later ones.
C8_Witness ==
    /\ op = "search"
    /\ Len(matches) >= 2
    /\ Len(matches) < Len(books)
    /\ matches[1] # books[1]

(***************************************************************************)
(* C9  Every step leaves currentPage unchanged, or adds exactly 1 to it    *)
(* (a nextPage that returned true), or sets it to 1 (a search): only       *)
(* search lowers it, and nothing moves it forward by more than 1.          *)
(***************************************************************************)
C9_PageMonotonic ==
    [][\/ currentPage' = currentPage
       \/ (currentPage' = currentPage + 1 /\ op' = "nextPage" /\ ret' = TRUE)
       \/ (currentPage' = 1 /\ op' = "search")]_vars

\* The cursor advanced twice, one page at a time.
C9_Witness ==
    /\ op = "nextPage" /\ ret = TRUE
    /\ currentPage = pre.currentPage + 1
    /\ currentPage >= 3

(***************************************************************************)
(* C10  currentPage >= 1 in every reachable state.                         *)
(***************************************************************************)
C10_PageAtLeastOne == currentPage >= 1

\* A search from a later page that finds nothing.
C10_Witness ==
    /\ op = "search"
    /\ pre.currentPage > 1
    /\ matches = <<>>

(***************************************************************************)
(* C11  getCurrentBookPage returns the entries of matches at the 0-based   *)
(* indices (currentPage-1)*booksPerPage up to but excluding                *)
(* currentPage*booksPerPage, cut at the end of matches: at most            *)
(* booksPerPage entries, the shorter tail on the last page.                *)
(***************************************************************************)
\* matches[from .. to-1] (0-based), cut at the end of matches.
ClampedRange(from, to) ==
    LET last == IF to < Len(matches) THEN to ELSE Len(matches)
    IN  [i \in 1..(IF last > from THEN last - from ELSE 0) |-> matches[from + i]]

C11_PageIsClampedSlice ==
    LET page == ClampedRange((currentPage - 1) * booksPerPage,
                             currentPage * booksPerPage)
    IN  /\ getCurrentBookPage(bookList) = page
        /\ Len(getCurrentBookPage(bookList)) <= booksPerPage
        /\ op = "getCurrentBookPage" => ret = page

\* The last page, shorter than booksPerPage, has been fetched.
C11_Witness ==
    /\ op = "getCurrentBookPage"
    /\ currentPage > 1
    /\ currentPage * booksPerPage > Len(matches)
    /\ Len(ret) > 0 /\ Len(ret) < booksPerPage

(***************************************************************************)
(* C12  remainingCount() is a non-negative integer equal to                *)
(* max(0, matches.length - currentPage*booksPerPage), which is the number  *)
(* of entries of matches in none of the pages 1..currentPage.              *)
(***************************************************************************)
\* The positions of matches whose entry is in none of the pages 1..n.
NotYetSurfaced(n) ==
    { i \in 1..Len(matches) :
        \A j \in 1..Len(PagesUpTo(n)) : PagesUpTo(n)[j] # matches[i] }

C12_RemainingCount ==
    LET left == Len(matches) - currentPage * booksPerPage
    IN  /\ remainingCount(bookList) \in Nat
        /\ remainingCount(bookList) = (IF left > 0 THEN left ELSE 0)
        /\ remainingCount(bookList) = Cardinality(NotYetSurfaced(currentPage))
        /\ op = "remainingCount" => ret = remainingCount(bookList)

\* remainingCount() called on a later page with entries still to come.
C12_Witness ==
    /\ op = "remainingCount"
    /\ currentPage > 1
    /\ ret > 0

(***************************************************************************)
(* C13  Paging saturates.  When nextPage keeps being called and no search  *)
(* intervenes any more, a state with remainingCount() = 0 is reached and   *)
(* kept; in such a state nextPage returns false and changes nothing of     *)
(* the book list, again and again, and a search can still be made.         *)
(***************************************************************************)
C13_PagingSaturates ==
    /\ <>[](op # "search") => <>[](remainingCount(bookList) = 0)
    /\ [][(remainingCount(bookList) = 0 /\ op' = "nextPage") =>
            /\ ret' = FALSE
            /\ UNCHANGED <<books, booksPerPage, currentPage, matches>>
            /\ remainingCount(bookList)' = 0]_vars
    /\ [](remainingCount(bookList) = 0 => ENABLED (\E filters \in Filters : Search(filters)))

\* nextPage refused twice in a row on the last of three pages.
C13_Witness ==
    /\ op = "nextPage" /\ ret = FALSE
    /\ pre.currentPage = currentPage
    /\ currentPage >= 3
    /\ remainingCount(bookList) = 0

(***************************************************************************)
(* C14  Construction.  createBookList(booksData, booksPerPage) yields a    *)
(* list with currentPage = 1 and matches equal to books (same entries,     *)
(* same order, same number), and the first getCurrentBookPage() returns    *)
(* the first booksPerPage entries of the full set.                         *)
(***************************************************************************)
C14_Construction ==
    /\ op = "createBookList" =>
          /\ currentPage = 1
          /\ matches = books
          /\ Len(matches) = Len(books)
          /\ getCurrentBookPage(bookList) = FirstN(books, booksPerPage)
    /\ (op = "getCurrentBookPage" /\ criteria = <<>> /\ currentPage = 1) =>
          ret = FirstN(books, booksPerPage)

\* The first page fetched from a new list that holds more than one page.
C14_Witness ==
    /\ op = "getCurrentBookPage"
    /\ criteria = <<>>
    /\ currentPage = 1
    /\ Len(books) > booksPerPage
    /\ Len(ret) = booksPerPage

(***************************************************************************)
(* C15  Small or empty result.  When a search leaves at most booksPerPage  *)
(* matches (none included), the call that follows it behaves so:           *)
(* getCurrentBookPage() returns all of matches, remainingCount() returns   *)
(* 0, and nextPage() returns false and changes nothing of the book list.   *)
(***************************************************************************)
C15_SmallResult ==
    [][(op = "search" /\ Len(matches) <= booksPerPage) =>
         /\ op' = "getCurrentBookPage" => ret' = matches
         /\ op' = "remainingCount" => ret' = 0
         /\ op' = "nextPage" =>
              /\ ret' = FALSE
              /\ UNCHANGED <<books, booksPerPage, currentPage, matches>>]_vars

\* nextPage refused on the first page of a search that filled exactly one
\* page.
C15_Witness ==
    /\ op = "nextPage" /\ ret = FALSE
    /\ criteria # <<>>
    /\ currentPage = 1
    /\ Len(matches) = booksPerPage
    /\ Len(matches) < Len(books)

(***************************************************************************)
(* C16  Unrecognized filter value.  A search whose author is neither       *)
(* 'any' nor the author of any book, or whose genre is neither 'any' nor   *)
(* among the genres of any book, leaves matches empty and returns the      *)
(* empty sequence.                                                         *)
(***************************************************************************)
UnknownAuthor(filters) ==
    /\ filters.author # "any"
    /\ \A i \in 1..Len(books) : books[i].author # filters.author

UnknownGenre(filters) ==
    /\ filters.genre # "any"
    /\ \A i \in 1..Len(books) :
          \A k \in 1..Len(books[i].genres) : books[i].genres[k] # filters.genre

C16_UnknownValueMatchesNothing ==
    (op = "search" /\ (UnknownAuthor(criteria[1]) \/ UnknownGenre(criteria[1]))) =>
        /\ matches = <<>>
        /\ ret = <<>>

\* Books were showing, and a search that restricts nothing but the author,
\* to an id no book has, empties the matches.
C16_Witness ==
    /\ op = "search"
    /\ criteria[1].author = "a9"
    /\ criteria[1].genre = "any"
    /\ IsBlank(criteria[1].title)
    /\ pre.matchCount > 1
    /\ matches = <<>>

(***************************************************************************)
(* C17  Genre test.  For the book and the criteria of a search, the genre  *)
(* sub-test is true iff criteria.genre is 'any' or occurs in the book's    *)
(* genres; it is the same for every permutation of the genres; a book      *)
(* with no genres passes only 'any'.  When the title and author tests      *)
(* pass, the book is found iff the genre test holds.                       *)
(***************************************************************************)
\* The rearrangements of a list.
Rearranged(list) ==
    { [i \in 1..Len(list) |-> list[p[i]]] : p \in Permutations(1..Len(list)) }

C17_GenreTest ==
    criteria # <<>> =>
        \A i \in 1..Len(books) :
            LET book == books[i]
                filters == criteria[1]
            IN  /\ genreMatchOf(book, filters) = GenreTest(book, filters)
                /\ \A list \in Rearranged(book.genres) :
                      genreMatchOf([book EXCEPT !.genres = list], filters)
                        = genreMatchOf(book, filters)
                /\ book.genres = <<>> =>
                      (genreMatchOf(book, filters) = (filters.genre = "any"))
                /\ (TitleTest(book, filters) /\ AuthorTest(book, filters)) =>
                      ((\E j \in 1..Len(matches) : matches[j] = book)
                         = GenreTest(book, filters))

\* A book found by a genre that is the second of its two genres.
C17_Witness ==
    /\ op = "search"
    /\ criteria[1].genre = "g1"
    /\ Len(books) = 1
    /\ books[1].genres = <<"g2", "g1">>
    /\ matches = books

(***************************************************************************)
(* C18  Title test.  For the book and the criteria of a search, the title  *)
(* sub-test is true iff criteria.title is empty or white space only, or    *)
(* criteria.title lower-cased is a contiguous substring of the book's      *)
(* title lower-cased; and the result does not change when the case of a    *)
(* letter of either string is changed.                                     *)
(***************************************************************************)
\* The other case of a letter (toUpperCase of a lower-case letter,
\* toLowerCase of an upper-case one); any other character is left as it is.
SwapCase(c) ==
    CASE c = "a" -> "A"
      [] c = "A" -> "a"
      [] c = "b" -> "B"
      [] c = "B" -> "b"
      [] c = "i" -> "I"
      [] c = "I" -> "i"
      [] c = "i-dotless" -> "I"
      [] OTHER -> c

\* text with the case of one of its letters changed.
CaseChanged(text) ==
    { [text EXCEPT ![k] = SwapCase(text[k])] : k \in 1..Len(text) }

\* The first half of the claim: blank, or a substring after lower-casing.
TitleTestAgrees(book, filters) ==
    titleMatch(book, filters) = TitleTest(book, filters)

\* The second half, for the letters of one string.
CaseBlind(book, filters) ==
    /\ \A text \in CaseChanged(filters.title) :
          titleMatch(book, [filters EXCEPT !.title = text]) = titleMatch(book, filters)
    /\ \A text \in CaseChanged(book.title) :
          titleMatch([book EXCEPT !.title = text], filters) = titleMatch(book, filters)

C18_TitleTest ==
    criteria # <<>> =>
        \A i \in 1..Len(books) :
            /\ TitleTestAgrees(books[i], criteria[1])
            /\ CaseBlind(books[i], criteria[1])

\* What does hold: the first half for every title, the second half for
\* titles and filters without a dotless i.
HasDotlessI(text) == \E k \in 1..Len(text) : text[k] = "i-dotless"

C18_TitleTestPlainLetters ==
    criteria # <<>> =>
        \A i \in 1..Len(books) :
            /\ TitleTestAgrees(books[i], criteria[1])
            /\ (~HasDotlessI(books[i].title) /\ ~HasDotlessI(criteria[1].title))
                  => CaseBlind(books[i], criteria[1])

(***************************************************************************)
(* C19  Author test.  For the book and the criteria of a search, the       *)
(* author sub-test is true iff criteria.author is 'any' or is exactly the  *)
(* book's author: an id that differs only in case ("A1" for "a1") or is    *)
(* only a part of it ("a" for "a1") does not pass, and the book is then    *)
(* not found.                                                              *)
(***************************************************************************)
C19_AuthorTest ==
    criteria # <<>> =>
        \A i \in 1..Len(books) :
            LET book == books[i]
                filters == criteria[1]
            IN  /\ authorMatch(book, filters)
                     = (filters.author = "any" \/ filters.author = book.author)
                /\ (book.author = "a1" /\ filters.author \in {"A1", "a"}) =>
                      /\ ~authorMatch(book, filters)
                      /\ \A j \in 1..Len(matches) : matches[j] # book

\* A book by "a1" that passes the title and genre tests is not found by
\* the author "A1".
C19_Witness ==
    /\ op = "search"
    /\ Len(books) = 1
    /\ books[1].author = "a1"
    /\ criteria[1].author = "A1"
    /\ TitleTest(books[1], criteria[1])
    /\ GenreTest(books[1], criteria[1])
    /\ matches = <<>>

(***************************************************************************)
(* C20  Frame.  No call changes books (the entries and their attributes)   *)
(* or booksPerPage; getCurrentBookPage and remainingCount change nothing   *)
(* of the book list; matches changes only in a search, and currentPage     *)
(* only in a search or a nextPage.                                         *)
(***************************************************************************)
C20_Frame ==
    [][/\ books' = books
       /\ booksPerPage' = booksPerPage
       /\ op' \in {"getCurrentBookPage", "remainingCount"} =>
             UNCHANGED <<books, booksPerPage, currentPage, matches>>
       /\ matches' # matches => op' = "search"
       /\ currentPage' # currentPage => op' \in {"search", "nextPage"}]_vars

\* A search from a later page that found fewer books than the list holds:
\* matches and currentPage changed, books did not.
C20_Witness ==
    /\ op = "search"
    /\ pre.currentPage > 1
    /\ Len(matches) < pre.matchCount
    /\ Len(matches) > 0
    /\ Len(books) > Len(matches)

(***************************************************************************)
(* C21  Invalid date.  A raw record whose published value is no date makes *)
(* a book that stores the Invalid Date; building the list does not fail,   *)
(* and the book is filtered and paged exactly as the same book with a      *)
(* date would be: published takes no part in matching, in the order of the *)
(* matches, in the pages, the remaining count or the page cursor.          *)
(***************************************************************************)
\* The book with its published value replaced by a date.
Redated(book) == [book EXCEPT !.published = newDate(SomeDate)]

RedatedAll(arr) == [i \in 1..Len(arr) |-> Redated(arr[i])]

\* The list as it would be had every record carried a date.
RedatedList == [bookList EXCEPT !.books = RedatedAll(books), !.matches = RedatedAll(matches)]

HasInvalidDate(arr) == \E i \in 1..Len(arr) : arr[i].published = InvalidDate

C21_InvalidDateHarmless ==
    /\ \A value \in PublishedInputs \ ParseableDates :
           createBook([id |-> "1", title |-> <<>>, author |-> "a1",
                       published |-> value, genres |-> <<>>]).published = InvalidDate
    /\ \A i \in 1..Len(books) : books[i].published \in {InvalidDate, newDate(SomeDate)}
    /\ criteria # <<>> =>
           /\ \A i \in 1..Len(books) :
                  bookMatches(books[i], criteria[1]) = bookMatches(Redated(books[i]), criteria[1])
           /\ RedatedAll(matches) = search(RedatedList, criteria[1]).ret
    /\ criteria = <<>> => matches = books
    /\ RedatedAll(getCurrentBookPage(bookList)) = getCurrentBookPage(RedatedList)
    /\ remainingCount(bookList) = remainingCount(RedatedList)
    /\ nextPage(bookList).ret = nextPage(RedatedList).ret
    /\ nextPage(bookList).this.currentPage = nextPage(RedatedList).this.currentPage

\* A search found a book whose published value is no date, and paging
\* reached the page that holds it.
C21_Witness ==
    /\ op = "nextPage"
    /\ ret = TRUE
    /\ criteria # <<>>
    /\ HasInvalidDate(getCurrentBookPage(bookList))
    /\ ~HasInvalidDate(FirstN(matches, booksPerPage))

(***************************************************************************)
(* C22  Upper bound on the page cursor.  currentPage never exceeds the     *)
(* number of pages the matches fill (at least one): whenever there are     *)
(* matches, the cursor's page starts inside them and getCurrentBookPage is *)
(* not empty; with no match the cursor is 1.                               *)
(***************************************************************************)
\* The number of pages n elements fill.
PageCount(n, perPage) == (n + perPage - 1) \div perPage

C22_PageUpperBound ==
    /\ currentPage <= Max(1, PageCount(Len(matches), booksPerPage))
    /\ matches # <<>> =>
           /\ (currentPage - 1) * booksPerPage < Len(matches)
           /\ getCurrentBookPage(bookList) # <<>>
    /\ matches = <<>> => currentPage = 1

\* The cursor stands on the last page, which is full, and a further
\* nextPage call was refused.
C22_Witness ==
    /\ op = "nextPage"
    /\ ret = FALSE
    /\ pre.currentPage > 1
    /\ currentPage * booksPerPage = Len(matches)

(***************************************************************************)
(* C23  Rendered list tracks the view.  After initializeUI and after every *)
(* search submission and show-more click, the previews in the list are the *)
(* previews of the first min(matches.length, currentPage * booksPerPage)   *)
(* matches, in order, each once.  A search leaves the first page of its    *)
(* results and nothing of the list before it; a show-more click adds the   *)
(* books of the next page, none when nothing remained.                     *)
(***************************************************************************)
\* The previews of the books of arr, in order.
PreviewsOf(arr) ==
    [i \in 1..Len(arr) |->
        [preview |-> arr[i].id, title |-> arr[i].title, author |-> authorsAt(arr[i].author)]]

\* The number of books surfaced at a page cursor.
Surfaced(count, page) == Min(count, page * booksPerPage)

C23_ListTracksView ==
    /\ document.listItems = PreviewsOf(FirstN(matches, currentPage * booksPerPage))
    /\ Len(document.listItems) = Surfaced(Len(matches), currentPage)
    /\ \A i, j \in 1..Len(document.listItems) :
           i # j => document.listItems[i].preview # document.listItems[j].preview
    /\ op = "handleSearch" => document.listItems = PreviewsOf(FirstN(ret, booksPerPage))
    /\ op = "loadMoreBooks" =>
           Len(document.listItems) =
               Surfaced(pre.matchCount, pre.currentPage)
               + (IF pre.matchCount > pre.currentPage * booksPerPage
                  THEN Min(booksPerPage, pre.matchCount - pre.currentPage * booksPerPage)
                  ELSE 0)

\* After a search that narrowed the books, the pages were all shown, and a
\* further show-more click found nothing to add.
C23_Witness ==
    /\ op = "loadMoreBooks"
    /\ ret = FALSE
    /\ criteria # <<>>
    /\ currentPage > 1
    /\ Len(matches) < Len(books)
    /\ Len(document.listItems) = Len(matches)

(***************************************************************************)
(* C24  Show-more button.  After initializeUI and after every search       *)
(* submission and show-more click, the button is disabled iff              *)
(* remainingCount() is 0 and its label shows remainingCount(); a show-more *)
(* click while the button is enabled advances the page by one.             *)
(***************************************************************************)
ButtonConsistent ==
    /\ document.listButton.disabled <=> (remainingCount(bookList) = 0)
    /\ document.listButton.remaining =
           <<Max(0, Len(matches) - currentPage * booksPerPage)>>

C24_ShowMoreButton ==
    /\ []ButtonConsistent
    /\ [][(op' = "loadMoreBooks" /\ ~document.listButton.disabled)
              => (currentPage' = currentPage + 1 /\ ret' = TRUE)]_vars

\* A click on the enabled button brought the last page, and the button is
\* now disabled and shows 0.
C24_Witness ==
    /\ op = "loadMoreBooks"
    /\ ret = TRUE
    /\ document.listButton.disabled
    /\ document.listButton.remaining = <<0>>
    /\ currentPage = pre.currentPage + 1

(***************************************************************************)
(* C25  Empty-state message.  After every search submission the message   *)
(* is shown iff the search returned no match; a show-more click does not   *)
(* change it; so once a search was made, the message is shown iff matches  *)
(* is empty.                                                               *)
(***************************************************************************)
C25_EmptyStateMessage ==
    /\ [](op = "handleSearch" => (document.listMessage <=> ret = <<>>))
    /\ [](criteria # <<>> => (document.listMessage <=> matches = <<>>))
    /\ [][op' = "loadMoreBooks" => document'.listMessage = document.listMessage]_vars

\* A search with matches took away the message that an earlier search
\* without any had shown.
C25_Witness ==
    /\ op = "handleSearch"
    /\ ret # <<>>
    /\ pre.matchCount = 0
    /\ ~document.listMessage

(***************************************************************************)
(* C28  Detail overlay lookup.  A click whose event path holds a preview   *)
(* opens the detail overlay with the title, author and year of the book of *)
(* bookList.books whose id is the preview's data-preview value; ids being  *)
(* unique, that is the book the preview was rendered from.  A click with   *)
(* no preview in its path leaves the overlay as it was, and no click       *)
(* changes the book list, the list of previews, the button or the message. *)
(***************************************************************************)
\* The data-preview values of the nodes of a path that have one.
PreviewValues(pathArray) ==
    { pathArray[i].preview :
        i \in { k \in 1..Len(pathArray) : "preview" \in DOMAIN pathArray[k] } }

\* The overlay shows the book.
Shows(active, book) ==
    /\ active.open
    /\ active.title = book.title
    /\ active.subtitle = <<authorsAt(book.author), getFullYear(book.published)>>

ClickedPreviewShown ==
    (op = "handleBookClick" /\ PreviewValues(pre.path) # {}) =>
        \E i \in 1..Len(books) :
            /\ PreviewValues(pre.path) = {books[i].id}
            /\ \A j \in 1..Len(books) : books[j].id = books[i].id => j = i
            /\ ret = <<books[i]>>
            /\ Shows(document.listActive, books[i])
            /\ \E k \in 1..Len(document.listItems) :
                   /\ document.listItems[k].preview = books[i].id
                   /\ matches[k] = books[i]

C28_DetailOverlay ==
    /\ []ClickedPreviewShown
    /\ [][op' = "handleBookClick" =>
             /\ UNCHANGED <<books, booksPerPage, currentPage, matches, criteria>>
             /\ document' = [document EXCEPT !.listActive = document'.listActive]
             /\ PreviewValues(pre'.path) = {} =>
                    (ret' = <<>> /\ document' = document)]_vars

\* After a search, a click on a preview that is not the first of the list
\* opened the overlay on a book that is not the first of the books.
C28_Witness ==
    /\ op = "handleBookClick"
    /\ ret # <<>>
    /\ criteria # <<>>
    /\ document.listActive.open
    /\ ret[1] # books[1]
    /\ ret[1] # matches[1]

(***************************************************************************)
(* C26  Refactoring preserves filtering.  For every list of books and all  *)
(* filters, bookList.search(filters) selects the books of the records that *)
(* the old submit handler pushes onto result, in the same order.           *)
(***************************************************************************)
\* The ids of the books or records of arr, in order.
IdsOf(arr) == [i \in 1..Len(arr) |-> arr[i].id]

C26_SameFiltering ==
    /\ IdsOf(matches) = IdsOf(draft.matches)
    /\ matches = mapCreateBook(draft.matches)
    /\ op = "handleSearch" => IdsOf(ret) = IdsOf(draft.matches)
    /\ op = "initializeUI" =>
           \A filters \in Filters :
               search(bookList, filters).ret
                   = mapCreateBook(draftResult(draft.books, filters))

\* Both were given a search with a blank title that some books pass and
\* others do not.
C26_Witness ==
    /\ op = "handleSearch"
    /\ criteria[1].title = <<" ">>
    /\ ret # <<>>
    /\ Len(draft.matches) < Len(draft.books)
    /\ ret[1].id # books[1].id

(***************************************************************************)
(* C27  Refactoring preserves paging output.  Both started at page 1 with  *)
(* all books as matches and the first page rendered; after every sequence  *)
(* of search submissions and show-more clicks the list of previews of the  *)
(* page equals the list the old handlers built.                            *)
(***************************************************************************)
C27_SamePagingOutput ==
    /\ document.listItems = draft.document.listItems
    /\ Len(draft.document.listItems) = Min(Len(draft.matches), draft.page * draft.booksPerPage)

\* After a search, show-more was clicked past the last page: the old
\* handler counted the click, nextPage refused it.
C27_Witness ==
    /\ op = "loadMoreBooks"
    /\ ret = FALSE
    /\ criteria # <<>>
    /\ currentPage > 1
    /\ draft.page > currentPage
    /\ Len(document.listItems) = Len(matches)

====
